---- MODULE Spec2Model ----
(***************************************************************************)
(* Model of the historical-data repair/merge pipeline (src/updater.py) and  *)
(* of the forecast reconciler (src/stock-analyzer-backend/prediction_api.py)*)
(*                                                                         *)
(* Dates are day numbers (day 0 is DEFAULT_START_DATE).  A DataFrame is a   *)
(* record [cols, rows]: cols a sequence of column names, rows a sequence of *)
(* rows, each row a sequence of cells, one per column.  A cell is a record  *)
(* [k, v]: k is what pandas sees in it, v its payload.                      *)
(*   iso     a 'YYYY-MM-DD' string for day v                                *)
(*   len     a date string in another format (01/02/2020) for day v         *)
(*   ts      a parsed Timestamp for day v (only inside a frame)             *)
(*   num     the number v                                                   *)
(*   sym     the symbol of ticker number v, an upper-case token             *)
(*   hinttxt free text that contains the symbol of ticker number v          *)
(*   name    the text of the cell's own column name (an embedded header)    *)
(*   txt     lower-case free text                                           *)
(*   empty   NaN / the empty string                                         *)
(*   pdna    pd.NA (only inside a frame)                                    *)
(*   nastr   the string '<NA>'                                              *)
(***************************************************************************)
EXTENDS Integers, Sequences, FiniteSets, TLC

(* ------------------------------ bounds --------------------------------- *)
\* the last day number of the calendar of the model
MaxDay == 3
\* the most rows one fetch returns
MaxFetch == 2
\* the most batches (calls of update_historical_data) of one behaviour
MaxRuns == 2
\* the most rows of a table handed to the normalizer
MaxRows == 2
\* the most rows of a forecast handed to the reconciler
MaxPred == 2
\* the most calls of the reconciler on the same arguments
MaxCalls == 2
\* the number of states of a random generator
RngModulus == 16

Days == 0..MaxDay

(* --------------------------- program constants ------------------------- *)
DEFAULT_START_DATE == 0
EXPECTED_COLUMNS == <<"Date", "Open", "High", "Low", "Close", "Volume", "Stock">>
HEAD_ROWS == 6
NaT == 0 - 1
None == [isNone |-> TRUE]

\* the tickers of the batch, in list order; the second has no exchange suffix
Tickers == <<"AAA.NS", "BBB">>
TickerIds == 1..Len(Tickers)

(* ------------------------------- cells --------------------------------- *)
Cell(k, v) == [k |-> k, v |-> v]
Iso(d) == Cell("iso", d)
Lenient(d) == Cell("len", d)
Num(x) == Cell("num", x)
Sym(i) == Cell("sym", i)
Empty == Cell("empty", 0)
PdNA == Cell("pdna", 0)
NAStr == Cell("nastr", 0)
NameCell == Cell("name", 0)
Txt == Cell("txt", 0)

\* pd.to_datetime(x, format="%Y-%m-%d", errors="coerce")
ParseStrict(c) == IF c.k \in {"iso", "ts"} THEN c.v ELSE NaT
\* pd.to_datetime(x, errors="coerce", dayfirst=False)
ParseLenient(c) == IF c.k \in {"iso", "len", "ts"} THEN c.v ELSE NaT
\* pd.isna(x)
IsNa(c) == c.k \in {"empty", "pdna"}

(* ---------------------------- column names ----------------------------- *)
\* flatten_column_name: a tuple-like name gives its first part
flatten_column_name(col) ==
    IF col = "('Close', 'AAA.NS')" THEN "Close" ELSE col

\* a column name of more than 80 characters that contains "close"
LongCloseColumn ==
    "Close (unadjusted closing price of the session, in the currency of the listing exchange)"

\* sub in name.lower(), for the names of the model
LowerContains(sub, name) ==
    CASE sub = "date" -> name \in {"Date", "date", "Trade Date"}
      [] sub = "open" -> name \in {"Open"}
      [] sub = "high" -> name \in {"High"}
      [] sub = "low" -> name \in {"Low"}
      [] sub = "close" -> name \in {"Close", "Adj Close", "('Close', 'AAA.NS')",
                                    "Close_AAA.NS", "Close_AAA_NS",
                                    LongCloseColumn}
      [] sub = "volume" -> name \in {"Volume"}
      [] sub = "stock" -> name \in {"Stock"}
      [] OTHER -> FALSE

Lower(name) ==
    CASE name = "Date" -> "date"
      [] name = "Open" -> "open"
      [] name = "High" -> "high"
      [] name = "Low" -> "low"
      [] name = "Close" -> "close"
      [] name = "Volume" -> "volume"
      [] name = "Stock" -> "stock"
      [] OTHER -> name

HasCol(cols, name) == \E i \in 1..Len(cols) : cols[i] = name
\* the position of the first column called name (0: none)
ColIndex(cols, name) ==
    IF HasCol(cols, name)
    THEN CHOOSE i \in 1..Len(cols) :
             cols[i] = name /\ \A j \in 1..(i - 1) : cols[j] # name
    ELSE 0
\* the first column whose name contains sub, case-insensitively (0: none)
FirstContaining(cols, sub) ==
    IF \E i \in 1..Len(cols) : LowerContains(sub, cols[i])
    THEN CHOOSE i \in 1..Len(cols) :
             LowerContains(sub, cols[i])
             /\ \A j \in 1..(i - 1) : ~LowerContains(sub, cols[j])
    ELSE 0

\* the subsequence of s at the positions in keep, in order
RECURSIVE Pick(_, _, _)
Pick(s, keep, i) ==
    IF i > Len(s) THEN <<>>
    ELSE (IF i \in keep THEN <<s[i]>> ELSE <<>>) \o Pick(s, keep, i + 1)

Max2(a, b) == IF a >= b THEN a ELSE b
Min2(a, b) == IF a <= b THEN a ELSE b

SetMax(S) == CHOOSE x \in S : \A y \in S : y <= x
SetMin(S) == CHOOSE x \in S : \A y \in S : x <= y

(* --------------------- files and the tolerant reader ------------------- *)
\* A file on disk: absent, unreadable (every encoding/engine fails), or CSV
\* text with a header line and rows
MissingFile == [kind |-> "missing"]
UnreadableFile == [kind |-> "unreadable"]
CsvFile(cols, rows) == [kind |-> "csv", cols |-> cols, rows |-> rows]

\* pd.read_csv turns the NA spellings ('', '<NA>') of a field into NaN
ReadField(c) == IF c.k \in {"empty", "nastr", "pdna"} THEN Empty ELSE c

\* read_csv_flexible: (df or None, position of date_col or 0)
read_csv_flexible(f) ==
    IF f.kind # "csv" THEN [df |-> None, date_col |-> 0]
    ELSE LET rows == [r \in 1..Len(f.rows) |->
                         [c \in 1..Len(f.cols) |-> ReadField(f.rows[r][c])]]
             named == FirstContaining(f.cols, "date")
         IN [df |-> [cols |-> f.cols, rows |-> rows],
             date_col |->
                 IF named # 0 THEN named
                 ELSE IF Len(f.cols) >= 1
                         /\ \E r \in 1..Len(rows) : ParseLenient(rows[r][1]) # NaT
                      THEN 1 ELSE 0]

\* DataFrame.to_csv(csv_path, index=False, header=EXPECTED_COLUMNS)
to_csv(df) ==
    CsvFile(EXPECTED_COLUMNS,
            [r \in 1..Len(df.rows) |->
                [c \in 1..Len(df.cols) |->
                    IF df.rows[r][c].k = "ts" THEN Iso(df.rows[r][c].v)
                    ELSE IF df.rows[r][c].k = "pdna" THEN Empty
                    ELSE df.rows[r][c]]])

(* ------------------------------ normalizer ----------------------------- *)
\* lines 172-174
date_candidates(cols) ==
    LET named == SelectSeq(cols, LAMBDA n : LowerContains("date", n))
    IN IF named = <<>> /\ Len(cols) >= 1 THEN <<cols[1]>> ELSE named

\* a guard without its date gate
row_never_dated(cols, row, cands) == FALSE

\* lines 135-157
row_has_valid_date(cols, row, cands) ==
    \/ \E i \in 1..Len(cands) :
          /\ HasCol(cols, cands[i])
          /\ ~IsNa(row[ColIndex(cols, cands[i])])
          /\ ParseLenient(row[ColIndex(cols, cands[i])]) # NaT
    \/ ParseLenient(row[1]) # NaT

\* line 194: the cell equals its column name, contains the ticker hint, or
\* is an upper-case token of letters, digits, '.' and '-'
CellIsHeaderLike(cell, hint) ==
    \/ cell.k = "name"
    \/ hint # 0 /\ cell.k \in {"sym", "hinttxt"} /\ cell.v = hint
    \/ cell.k \in {"sym", "iso", "num"}

\* lines 183-196: the majority vote over the non-empty cells outside "date"
CountedCells(cols, row) ==
    {i \in 1..Len(cols) : Lower(cols[i]) # "date" /\ ~IsNa(row[i])}
MatchedCells(cols, row, hint) ==
    {i \in CountedCells(cols, row) : CellIsHeaderLike(row[i], hint)}
VoteSaysHeader(cols, row, hint) ==
    LET non_empty == Cardinality(CountedCells(cols, row))
        match_count == Cardinality(MatchedCells(cols, row, hint))
    IN non_empty > 0 /\ match_count >= Max2(1, non_empty \div 2)

\* lines 177-197: the rows (by position) the guard marks header-like
header_like_rows(cols, rows, hint) ==
    {i \in 1..Min2(HEAD_ROWS, Len(rows)) :
        /\ ~row_has_valid_date(cols, rows[i], date_candidates(cols))
        /\ VoteSaysHeader(cols, rows[i], hint)}

\* lines 209-211: the Date column after the strict parse is a datetime
\* column; the fallback parses that column again
TsCell(d) == IF d = NaT THEN Empty ELSE Cell("ts", d)
ParseDateColumn(cells) ==
    LET strict == [r \in 1..Len(cells) |-> TsCell(ParseStrict(cells[r]))]
    IN IF \A r \in 1..Len(cells) : strict[r] = Empty
       THEN [r \in 1..Len(cells) |-> TsCell(ParseLenient(strict[r]))]
       ELSE strict

\* lines 217-227: find or create Open..Stock
RECURSIVE MapColumns(_, _)
MapColumns(f, targets) ==
    IF targets = <<>> THEN f
    ELSE LET col == Head(targets)
             found == FirstContaining(f.cols, Lower(col))
             f1 == IF HasCol(f.cols, col) THEN f
                   ELSE IF found # 0 THEN [f EXCEPT !.cols[found] = col]
                   ELSE [cols |-> Append(f.cols, col),
                         rows |-> [r \in 1..Len(f.rows) |->
                                      Append(f.rows[r], PdNA)]]
         IN MapColumns(f1, Tail(targets))

\* df.reindex(columns=EXPECTED_COLUMNS)
Reindex(f) ==
    [cols |-> EXPECTED_COLUMNS,
     rows |-> [r \in 1..Len(f.rows) |->
                  [c \in 1..Len(EXPECTED_COLUMNS) |->
                      IF HasCol(f.cols, EXPECTED_COLUMNS[c])
                      THEN f.rows[r][ColIndex(f.cols, EXPECTED_COLUMNS[c])]
                      ELSE Empty]]]

\* pd.to_numeric(x, errors="coerce")
ToNumeric(c) == IF c.k = "num" THEN c ELSE Empty
\* astype(str).replace("nan", ""): NaN gives '', pd.NA gives '<NA>'
StockStr(c) == IF c.k = "empty" THEN Empty ELSE IF c.k = "pdna" THEN NAStr ELSE c

\* a frame left with its repeated dates
KeepRepeatedDates(rows) == rows

\* a dedupe that keeps the first row of each date
DropDupKeepFirst(rows) ==
    Pick(rows,
         {i \in 1..Len(rows) :
             \A j \in 1..(i - 1) : rows[j][1].v # rows[i][1].v},
         1)

\* drop_duplicates(subset=["Date"], keep="last") on a frame whose Date is
\* the first column
DropDupKeepLast(rows) ==
    Pick(rows,
         {i \in 1..Len(rows) :
             \A j \in (i + 1)..Len(rows) : rows[j][1].v # rows[i][1].v},
         1)

\* sort_values("Date"), ties in input order
RECURSIVE SortByDate(_)
SortByDate(rows) ==
    IF rows = <<>> THEN <<>>
    ELSE LET m == CHOOSE i \in 1..Len(rows) :
                      \A j \in 1..Len(rows) :
                          \/ rows[i][1].v < rows[j][1].v
                          \/ rows[i][1].v = rows[j][1].v /\ i <= j
         IN <<rows[m]>> \o SortByDate(Pick(rows, (1..Len(rows)) \ {m}, 1))

\* lines 229-243 on a frame with the 7 columns: coerce, Stock, format, dedupe, sort
Canonicalize(f, hint) ==
    LET typed == [r \in 1..Len(f.rows) |->
                     [c \in 1..Len(EXPECTED_COLUMNS) |->
                         IF c = 1 THEN Iso(f.rows[r][1].v)
                         ELSE IF c = Len(EXPECTED_COLUMNS) THEN StockStr(f.rows[r][c])
                         ELSE ToNumeric(f.rows[r][c])]]
        allEmpty == \A r \in 1..Len(typed) : typed[r][Len(EXPECTED_COLUMNS)] = Empty
        filled == IF allEmpty /\ hint # 0
                  THEN [r \in 1..Len(typed) |->
                           [typed[r] EXCEPT ![Len(EXPECTED_COLUMNS)] = Sym(hint)]]
                  ELSE typed
    IN [cols |-> EXPECTED_COLUMNS, rows |-> SortByDate(DropDupKeepLast(filled))]

normalize_existing_df(df, hint) ==
    IF df = None THEN None
    ELSE IF Len(df.rows) = 0 THEN None
    ELSE LET cols0 == [i \in 1..Len(df.cols) |-> flatten_column_name(df.cols[i])]
             dropped == header_like_rows(cols0, df.rows, hint)
             rows1 == Pick(df.rows, (1..Len(df.rows)) \ dropped, 1)
             cols1 == IF ~HasCol(cols0, "Date") /\ Len(cols0) >= 1
                      THEN [cols0 EXCEPT ![1] = "Date"] ELSE cols0
         IN IF ~HasCol(cols1, "Date") THEN None
            ELSE LET di == ColIndex(cols1, "Date")
                     dates == ParseDateColumn([r \in 1..Len(rows1) |-> rows1[r][di]])
                     withDate == [r \in 1..Len(rows1) |->
                                     [rows1[r] EXCEPT ![di] = dates[r]]]
                     rows2 == Pick(withDate,
                                   {r \in 1..Len(rows1) : dates[r] # Empty}, 1)
                 IN IF rows2 = <<>> THEN None
                    ELSE Canonicalize(
                             Reindex(MapColumns([cols |-> cols1, rows |-> rows2],
                                                Tail(EXPECTED_COLUMNS))),
                             hint)

(* --------------------------- last-date detection ----------------------- *)
\* lines 336-341 / 347-352: strict, else lenient on the same column; the
\* valid dates of column ci
ColumnDates(df, ci) ==
    LET strict == {ParseStrict(df.rows[r][ci]) : r \in 1..Len(df.rows)} \ {NaT}
        lenient == {ParseLenient(df.rows[r][ci]) : r \in 1..Len(df.rows)} \ {NaT}
    IN IF strict = {} THEN lenient ELSE strict

\* get_last_date_from_csv: the last date, NaT for None
get_last_date_from_csv(f) ==
    LET r == read_csv_flexible(f)
    IN IF r.df = None THEN NaT
       ELSE IF r.date_col # 0 /\ ColumnDates(r.df, r.date_col) # {}
       THEN SetMax(ColumnDates(r.df, r.date_col))
       ELSE IF Len(r.df.cols) >= 1 /\ ColumnDates(r.df, 1) # {}
       THEN SetMax(ColumnDates(r.df, 1))
       ELSE NaT

(* ------------------------------ yfinance ------------------------------- *)
EmptyFrame == [cols |-> EXPECTED_COLUMNS, rows |-> <<>>]

\* f"{target}_{ticker}" and f"{target}_{ticker.replace('.', '_')}"
TickerColumn(target, tid) ==
    IF target = "Close" /\ Tickers[tid] = "AAA.NS" THEN "Close_AAA.NS"
    ELSE "no such column"
TickerColumnUnderscored(target, tid) ==
    IF target = "Close" /\ Tickers[tid] = "AAA.NS" THEN "Close_AAA_NS"
    ELSE "no such column"

\* a find_col that takes any column containing the target before it looks
\* for the exact and the ticker-suffixed names
find_col_by_substring(cols, target, tid) ==
    FirstContaining(cols, Lower(target))

\* find_col, lines 296-309: the position of the source column (0: None);
\* the containment search of lines 306-308 passes over names of more than
\* 80 characters
find_col(cols, target, tid) ==
    IF HasCol(cols, target) THEN ColIndex(cols, target)
    ELSE IF HasCol(cols, TickerColumn(target, tid))
    THEN ColIndex(cols, TickerColumn(target, tid))
    ELSE IF HasCol(cols, TickerColumnUnderscored(target, tid))
    THEN ColIndex(cols, TickerColumnUnderscored(target, tid))
    ELSE IF \E c \in 1..Len(cols) :
                LowerContains(Lower(target), cols[c]) /\ Len(cols[c]) <= 80
    THEN CHOOSE c \in 1..Len(cols) :
             /\ LowerContains(Lower(target), cols[c]) /\ Len(cols[c]) <= 80
             /\ \A b \in 1..(c - 1) :
                    ~(LowerContains(Lower(target), cols[b]) /\ Len(cols[b]) <= 80)
    ELSE 0

\* lines 271-291: the column the dates are taken from (0: none)
YfDateColumn(df) ==
    IF HasCol(df.cols, "Date") THEN ColIndex(df.cols, "Date")
    ELSE IF \E c \in 1..Len(df.cols) : \E r \in 1..Len(df.rows) :
                ParseLenient(df.rows[r][c]) # NaT
    THEN CHOOSE c \in 1..Len(df.cols) :
             /\ \E r \in 1..Len(df.rows) : ParseLenient(df.rows[r][c]) # NaT
             /\ \A b \in 1..(c - 1) : \A r \in 1..Len(df.rows) :
                    ParseLenient(df.rows[r][b]) = NaT
    ELSE 0

\* one row of res, lines 293-323
YfRow(df, row, dcol, tid) ==
    [c \in 1..Len(EXPECTED_COLUMNS) |->
        IF c = 1
        THEN (IF ParseLenient(row[dcol]) = NaT THEN Empty
              ELSE Iso(ParseLenient(row[dcol])))
        ELSE IF c = Len(EXPECTED_COLUMNS) THEN Sym(tid)
        ELSE IF find_col(df.cols, EXPECTED_COLUMNS[c], tid) = 0 THEN PdNA
        ELSE ToNumeric(row[find_col(df.cols, EXPECTED_COLUMNS[c], tid)])]

extract_expected_from_yf(df, tid) ==
    IF df = None THEN EmptyFrame
    ELSE IF Len(df.rows) = 0 THEN EmptyFrame
    ELSE IF YfDateColumn(df) = 0 THEN EmptyFrame
    ELSE LET res == [r \in 1..Len(df.rows) |->
                        YfRow(df, df.rows[r], YfDateColumn(df), tid)]
             dated == Pick(res, {r \in 1..Len(res) : res[r][1] # Empty}, 1)
         IN [cols |-> EXPECTED_COLUMNS, rows |-> DropDupKeepLast(dated)]

(* ------------------------------- merger -------------------------------- *)
\* the Date strings of a canonical frame, as a set
DatesOf(df) == {df.rows[r][1] : r \in 1..Len(df.rows)}

\* a merger for which every fetched date is new
new_dates_all(existing, ndf) == DatesOf(ndf)

\* lines 460-462
new_dates_to_add(existing, ndf) ==
    DatesOf(ndf) \ (IF existing = None THEN {} ELSE DatesOf(existing))

\* lines 466-467
CreatedSeries(ndf) ==
    [cols |-> EXPECTED_COLUMNS, rows |-> DropDupKeepLast(ndf.rows)]

\* a merger that appends nothing
ExistingOnly(existing, ndf) == existing

\* lines 476-482
CombinedSeries(existing, ndf) ==
    LET to_append == Pick(ndf.rows,
                          {r \in 1..Len(ndf.rows) :
                              ndf.rows[r][1] \in new_dates_to_add(existing, ndf)},
                          1)
        combined == existing.rows \o to_append
        parsed == [r \in 1..Len(combined) |->
                      [combined[r] EXCEPT ![1] = TsCell(ParseLenient(combined[r][1]))]]
        dated == Pick(parsed, {r \in 1..Len(parsed) : parsed[r][1] # Empty}, 1)
        sorted == SortByDate(DropDupKeepLast(dated))
    IN [cols |-> EXPECTED_COLUMNS,
        rows |-> [r \in 1..Len(sorted) |->
                     [sorted[r] EXCEPT ![1] = Iso(sorted[r][1].v)]]]

\* lines 396-399: the file name ends with _BO.csv or _NS.csv
ticker_hint(tid) == IF Tickers[tid] \in {"AAA.NS"} THEN tid ELSE 0

\* lines 415-425: the last date, NaT for None
LastDate(clean, f) ==
    IF clean # None
    THEN SetMax({ParseLenient(clean.rows[r][1]) : r \in 1..Len(clean.rows)})
    ELSE get_last_date_from_csv(f)

\* a window that starts on the last date itself
StartOnLastDate(last_date_result) ==
    IF last_date_result = NaT THEN DEFAULT_START_DATE ELSE last_date_result

\* lines 427-432
StartDate(last_date_result) ==
    IF last_date_result = NaT THEN DEFAULT_START_DATE ELSE last_date_result + 1

(* ---------------------- inputs of the batch updater -------------------- *)
\* a canonical row: the bar of day d with value x in every numeric column
Bar(d, x, stock) == <<Iso(d), Num(x), Num(x), Num(x), Num(x), Num(x), stock>>

\* the files the first ticker of the list may have before the first batch
InitFiles ==
    { MissingFile,
      UnreadableFile,
      \* header only (what create_missing writes)
      CsvFile(EXPECTED_COLUMNS, <<>>),
      \* canonical, last bar older than yesterday
      CsvFile(EXPECTED_COLUMNS,
              <<Bar(MaxDay - 3, 100, Sym(1)), Bar(MaxDay - 2, 101, Sym(1))>>),
      \* canonical, up to date
      CsvFile(EXPECTED_COLUMNS,
              <<Bar(MaxDay - 2, 100, Sym(1)), Bar(MaxDay, 101, Sym(1))>>),
      \* unsorted, with a repeated date, Stock empty
      CsvFile(EXPECTED_COLUMNS,
              <<Bar(MaxDay - 2, 100, Empty), Bar(MaxDay - 3, 100, Empty),
                Bar(MaxDay - 2, 101, Empty)>>),
      \* dates in a lenient format only
      CsvFile(<<"Date", "Close">>,
              <<(<<Lenient(MaxDay - 3), Num(100)>>),
                (<<Lenient(MaxDay - 1), Num(101)>>)>>),
      \* the dates in a second column called "Trade Date"
      CsvFile(<<"Symbol", "Trade Date", "Close">>,
              <<(<<Sym(1), Iso(MaxDay - 3), Num(100)>>),
                (<<Sym(1), Iso(MaxDay - 1), Num(101)>>)>>),
      \* an embedded header row above the data, no Stock column
      CsvFile(<<"Date", "Close", "Volume">>,
              <<(<<NameCell, NameCell, NameCell>>),
                (<<Iso(MaxDay - 3), Num(100), Num(100)>>)>>)
    }

\* the files of the tickers after the first
PlainFiles ==
    { MissingFile,
      CsvFile(EXPECTED_COLUMNS,
              <<Bar(MaxDay - 3, 100, Sym(2)), Bar(MaxDay - 2, 101, Sym(2))>>) }

\* what yf.download(...).reset_index() may hold: up to MaxFetch rows, any
\* day (or NaT) in any order, repeats allowed
YfColumns == <<"Date", "Open", "High", "Low", "Close", "Volume">>
YfBar(d, x) == <<TsCell(d), Num(x), Num(x), Num(x), Num(x), Num(x)>>
\* the days a download may return rows for
FetchDays == (MaxDay - 2)..MaxDay
\* the k-th row of a download carries the value 104 + k, so that a repeated
\* date comes with two different bars
FetchFrames ==
    {[cols |-> YfColumns,
      rows |-> [k \in 1..Len(ds) |-> YfBar(ds[k], 104 + k)]] :
        ds \in UNION {[1..n -> FetchDays \cup {NaT}] : n \in 1..MaxFetch}}

(* ------------------------- the batch updater --------------------------- *)
VARIABLES
    tickers,         \* the ticker list of the batches (ticker numbers)
    max_runs,        \* how many batches this behaviour starts
    run,             \* batches started so far
    today,           \* date.today() of the current batch
    create_missing,  \* the flag of the current batch
    idx,             \* position of the current ticker in tickers (0: none)
    pc,              \* idle | loop | read | fetch | merge | end
    file,            \* file[t]: the CSV of ticker t on disk
    file0,           \* the files as they were when the current batch started
    existing_clean,  \* local of the current cycle
    start,           \* start_date_for_download of the current cycle
    req,             \* the yf.download call of the current cycle
    raw,             \* what yf.download returned
    new_df,          \* local of the current cycle
    merged_count,    \* local of the current cycle
    outcome          \* how the current cycle ended (the line it logged)

uvars == <<tickers, max_runs, run, today, create_missing, idx, pc, file, file0,
           existing_clean, start, req, raw, new_df, merged_count, outcome>>

\* the normalizer applied to one table
VARIABLES
    nin,             \* the call normalize_existing_df(df, ticker_hint)
    nout             \* what the call did: the rows the guard dropped, the result
nvars == <<nin, nout>>

\* the reconciler applied to one forecast
VARIABLES
    pin,             \* the arguments of postprocess_prediction_df
    ppc,             \* where the call stands: "start", "close", "ohlc", "done"
    band,            \* its locals min_allowed, lower_bound, upper_bound
    close,           \* its local df['Close']
    offsets,         \* its locals high_offsets, low_offsets, open_offsets
    highlow,         \* its locals df['High'], df['Low'] of lines 532-533
    pout,            \* how the latest call ended: the frame returned, or Raised
    pfirst,          \* the locals and the end of the first call
    pcalls,          \* the calls made on these arguments
    ambient,         \* the state of the process-wide generator np.random
    pred_df          \* the caller's forecast frame, as the call leaves it
pvars == <<pin, ppc, band, close, offsets, highlow, pout, pfirst, pcalls, ambient,
          pred_df>>

\* one request to the forecast endpoint
VARIABLES
    areq,            \* the request and what it meets: time_range, the
                     \* preprocessed files, the rows yfinance has, the
                     \* libraries installed, the disk
    apc,             \* start | load | lgbm | prophet | pre | save | respond | done
    step,            \* debug_info["step"], <<stage, range>> for "stage_range"
    hist_df,         \* the local df
    lgbm_df,         \* the local lgbm_df
    prophet_df,      \* the local prophet_df
    artifact,        \* the prediction CSV this request wrote
    response,        \* what the endpoint returned
    failed_in        \* the stage (apc) in which an exception was raised
avars == <<areq, apc, step, hist_df, lgbm_df, prophet_df, artifact, response, failed_in>>

\* one call of the tolerant reader
VARIABLES
    rfile,           \* the path's file and how the library calls fare on it
    rpc,             \* start | try | tail | done
    rk,              \* the position in candidates of the attempt at hand
    attempts,        \* debug["attempts"]
    rresult          \* what read_csv_flexible returned
rvars == <<rfile, rpc, rk, attempts, rresult>>

\* one call of the download's conversion
VARIABLES
    yin,             \* the frame yfinance returned and the ticker
    yout             \* what extract_expected_from_yf returned
yvars == <<yin, yout>>

\* one call of lightgbm_predict
VARIABLES
    lgb_in,          \* df, periods, freq, and whether the library is there
    lgb_pc,          \* start | fit | roll | return | done
    valid_len,       \* len(X) after the valid_mask filter
    model_fitted,    \* model.fit was called
    predictions,     \* the list the roll-forward loop fills
    lgb_out          \* the frame returned, or the exception raised
lvars == <<lgb_in, lgb_pc, valid_len, model_fitted, predictions, lgb_out>>

\* the advance/decline cache, its updater thread and one request handler
VARIABLES
    ADVDEC_CACHE,    \* _ADVDEC_CACHE: for each key, the cycle that wrote it
    cycle,           \* the cycles of advdec_updater begun so far
    upd_pc,          \* off | compute | adv | dec | ts | sleep
    get_pc,          \* off | idle | adv | dec | ts
    snapshot,        \* the dict get_cached_advdec is building
    returned         \* the last dict get_cached_advdec returned
cvars == <<ADVDEC_CACHE, cycle, upd_pc, get_pc, snapshot, returned>>

NoOut == [isNoOut |-> TRUE]

\* the server not started
CIdle ==
    /\ ADVDEC_CACHE = [adv |-> 0, dec |-> 0, ts |-> 0] /\ cycle = 0
    /\ upd_pc = "off" /\ get_pc = "off" /\ snapshot = NoOut /\ returned = NoOut

\* lightgbm_predict at rest
LIdle ==
    /\ lgb_in = NoOut /\ lgb_pc = "idle" /\ valid_len = 0
    /\ model_fitted = FALSE /\ predictions = <<>> /\ lgb_out = NoOut

\* the conversion at rest
YIdle == yin = NoOut /\ yout = NoOut

\* the reader at rest
RIdle ==
    /\ rfile = NoOut /\ rpc = "idle" /\ rk = 0 /\ attempts = <<>>
    /\ rresult = NoOut

\* the endpoint at rest
AIdle ==
    /\ areq = NoOut /\ apc = "idle" /\ step = <<>> /\ hist_df = NoOut
    /\ lgbm_df = NoOut /\ prophet_df = NoOut /\ artifact = NoOut
    /\ response = NoOut /\ failed_in = "none"

NoReq == [ticker |-> 0, start |-> 0, end |-> 0]
end_exclusive_for_yfinance == today + 1

\* the ticker of the current cycle
ticker == tickers[idx]

UInitWith(lists, runs) ==
    /\ tickers \in lists
    /\ max_runs = runs
    /\ run = 0
    /\ today = MaxDay - 1
    /\ create_missing = FALSE
    /\ idx = 0
    /\ pc = "idle"
    /\ file \in {f \in [TickerIds -> InitFiles \cup PlainFiles] :
                    \A t \in TickerIds :
                        IF t = tickers[1] THEN f[t] \in InitFiles
                        ELSE f[t] \in PlainFiles}
    /\ file0 = file
    /\ existing_clean = None
    /\ start = 0
    /\ req = NoReq
    /\ raw = None
    /\ new_df = None
    /\ merged_count = 0
    /\ outcome = "none"

\* lines 369-377: a batch starts; today does not go back between batches
StartBatch ==
    /\ pc = "idle"
    /\ run < max_runs
    /\ run' = run + 1
    /\ today' \in {d \in {today, today + 1} : d <= MaxDay}
    \* the flag is read only where a file is missing
    /\ create_missing' \in IF \E t \in TickerIds : file[t].kind = "missing"
                           THEN BOOLEAN ELSE {FALSE}
    /\ file0' = file
    /\ idx' = 0
    /\ pc' = "loop"
    /\ UNCHANGED <<tickers, max_runs, file, existing_clean, start, req, raw, new_df,
                   merged_count, outcome>>
    /\ UNCHANGED <<nvars, pvars, avars, rvars, yvars, lvars, cvars>>

\* line 379: the loop takes the next ticker
NextTicker ==
    /\ pc \in {"loop", "end"}
    /\ idx < Len(tickers)
    /\ idx' = idx + 1
    /\ pc' = "read"
    /\ existing_clean' = None
    /\ start' = 0
    /\ req' = NoReq
    /\ raw' = None
    /\ new_df' = None
    /\ merged_count' = 0
    /\ outcome' = "none"
    /\ UNCHANGED <<tickers, max_runs, run, today, create_missing, file, file0>>
    /\ UNCHANGED <<nvars, pvars, avars, rvars, yvars, lvars, cvars>>

\* line 490: the list is exhausted
FinishBatch ==
    /\ pc \in {"loop", "end"}
    /\ idx = Len(tickers)
    /\ pc' = "idle"
    /\ idx' = 0
    /\ existing_clean' = None
    /\ start' = 0
    /\ req' = NoReq
    /\ raw' = None
    /\ new_df' = None
    /\ merged_count' = 0
    /\ outcome' = "none"
    /\ UNCHANGED <<tickers, max_runs, run, today, create_missing, file, file0>>
    /\ UNCHANGED <<nvars, pvars, avars, rvars, yvars, lvars, cvars>>

\* lines 380-436: read, normalize, write back, choose the fetch window.
\* The to_csv of line 385 that creates a missing file stands outside every
\* try: when it raises (the directory refuses the file), the exception
\* leaves update_historical_data and the loop with it.
ReadNormalize ==
    /\ pc = "read"
    /\ \/ /\ file[ticker].kind = "missing" /\ create_missing
          /\ outcome' = "aborted"
          /\ pc' = "idle"
          /\ UNCHANGED <<file, existing_clean, start>>
       \/ IF file[ticker].kind = "missing" /\ ~create_missing
          THEN /\ outcome' = "no_file"
               /\ pc' = "end"
               /\ UNCHANGED <<file, existing_clean, start>>
          ELSE LET f1 == IF file[ticker].kind = "missing"
                         THEN to_csv(EmptyFrame) ELSE file[ticker]
                   clean == normalize_existing_df(read_csv_flexible(f1).df,
                                                  ticker_hint(ticker))
                   f2 == IF clean # None THEN to_csv(clean) ELSE f1
                   st == StartDate(LastDate(clean, f2))
               IN /\ file' = [file EXCEPT ![ticker] = f2]
                  /\ existing_clean' = clean
                  /\ start' = st
                  /\ IF st >= end_exclusive_for_yfinance
                     THEN outcome' = "skip_window" /\ pc' = "end"
                     ELSE outcome' = outcome /\ pc' = "fetch"
    /\ UNCHANGED <<tickers, max_runs, run, today, create_missing, idx, file0, req, raw, new_df, merged_count>>
    /\ UNCHANGED <<nvars, pvars, avars, rvars, yvars, lvars, cvars>>

\* lines 439-452: the download is requested; it raises, returns nothing, or
\* returns rows
Fetch ==
    /\ pc = "fetch"
    /\ req' = [ticker |-> ticker, start |-> start, end |-> end_exclusive_for_yfinance]
    /\ \/ /\ outcome' = "error"
          /\ pc' = "end"
          /\ raw' = None
       \/ /\ outcome' = "no_data"
          /\ pc' = "end"
          /\ raw' = [cols |-> YfColumns, rows |-> <<>>]
       \/ /\ raw' \in FetchFrames
          /\ pc' = "merge"
          /\ outcome' = outcome
    /\ UNCHANGED <<tickers, max_runs, run, today, create_missing, idx, file, file0, existing_clean,
                   start, new_df, merged_count>>
    /\ UNCHANGED <<nvars, pvars, avars, rvars, yvars, lvars, cvars>>

\* a merge step that writes without asking whether any row was extracted
MergeWriteUnchecked ==
    /\ pc = "merge"
    /\ LET nd == extract_expected_from_yf(raw, ticker)
           count == Cardinality(new_dates_to_add(existing_clean, nd))
       IN /\ new_df' = nd
          /\ merged_count' = count
          /\ IF existing_clean = None
             THEN /\ file' = [file EXCEPT ![ticker] = to_csv(CreatedSeries(nd))]
                  /\ outcome' = "created"
             ELSE IF count = 0
             THEN /\ file' = [file EXCEPT ![ticker] = to_csv(existing_clean)]
                  /\ outcome' = "merged0"
             ELSE /\ file' = [file EXCEPT ![ticker] =
                                 to_csv(CombinedSeries(existing_clean, nd))]
                  /\ outcome' = "merged"
    /\ pc' = "end"
    /\ UNCHANGED <<tickers, max_runs, run, today, create_missing, idx, file0,
                   existing_clean, start, req, raw>>
    /\ UNCHANGED <<nvars, pvars, avars, rvars, yvars, lvars, cvars>>

\* lines 454-486: extract, merge, write
MergeWrite ==
    /\ pc = "merge"
    /\ LET nd == extract_expected_from_yf(raw, ticker)
           count == Cardinality(new_dates_to_add(existing_clean, nd))
       IN /\ new_df' = nd
          /\ IF Len(nd.rows) = 0
             THEN /\ outcome' = "none_parsed"
                  /\ UNCHANGED <<file, merged_count>>
             ELSE /\ merged_count' = count
                  /\ IF existing_clean = None
                     THEN /\ file' = [file EXCEPT ![ticker] = to_csv(CreatedSeries(nd))]
                          /\ outcome' = "created"
                     ELSE IF count = 0
                     THEN /\ file' = [file EXCEPT ![ticker] = to_csv(existing_clean)]
                          /\ outcome' = "merged0"
                     ELSE /\ file' = [file EXCEPT ![ticker] =
                                         to_csv(CombinedSeries(existing_clean, nd))]
                          /\ outcome' = "merged"
    /\ pc' = "end"
    /\ UNCHANGED <<tickers, max_runs, run, today, create_missing, idx, file0, existing_clean, start,
                   req, raw>>
    /\ UNCHANGED <<nvars, pvars, avars, rvars, yvars, lvars, cvars>>

UNext ==
    \/ StartBatch
    \/ NextTicker
    \/ FinishBatch
    \/ ReadNormalize
    \/ Fetch
    \/ MergeWrite

vars == <<uvars, nvars, pvars, avars, rvars, yvars, lvars, cvars>>

\* the normalizer and the reconciler at rest
NIdle == nin = NoOut /\ nout = NoOut
PIdle ==
    /\ pin = NoOut /\ ppc = "idle" /\ band = NoOut /\ close = NoOut
    /\ offsets = NoOut /\ highlow = NoOut /\ pout = NoOut /\ pfirst = NoOut
    /\ pcalls = 0 /\ ambient = 0 /\ pred_df = NoOut

\* one batch over a list of two tickers
Init == UInitWith({<<1, 2>>, <<2, 1>>}, 1) /\ NIdle /\ PIdle /\ AIdle /\ RIdle /\ YIdle /\ LIdle /\ CIdle
Next == UNext
Spec == Init /\ [][Next]_vars

\* MaxRuns batches in succession over a list of one ticker
InitRerun == UInitWith({<<1>>, <<2>>}, MaxRuns) /\ NIdle /\ PIdle /\ AIdle /\ RIdle /\ YIdle /\ LIdle /\ CIdle
SpecRerun == InitRerun /\ [][Next]_vars

(* ----------------------- the normalizer, on its own -------------------- *)
\* the column layouts of the tables: a Date column first, the dates in a
\* second column named "Trade Date", and no column named after a date
NormLayouts ==
    { <<"Date", "Close", "Stock">>,
      <<"Symbol", "Trade Date", "Close">>,
      <<"Day", "Close", "Stock">> }

\* the rows of a table with the columns cols: a date or text in the dates'
\* column, a number or text for Close, a symbol or nothing for Stock/Symbol
NormRows(cols) ==
    {IF cols[1] = "Symbol" THEN <<y, d, x>> ELSE <<d, x, y>> :
        d \in {Iso(0), Iso(1), Lenient(1), NameCell, Txt},
        x \in {Num(100), Txt},
        y \in {Sym(1), Empty}}

TablesOver(cols) ==
    {[cols |-> cols, rows |-> rows] :
        rows \in UNION {[1..n -> NormRows(cols)] : n \in 0..MaxRows}}
NormTables == UNION {TablesOver(cols) : cols \in NormLayouts}

\* Init: a table and a ticker hint (0: no hint) wait to be normalized
NInit ==
    /\ nin \in {[df |-> df, hint |-> h] : df \in NormTables \cup {None}, h \in 0..1}
    /\ nout = NoOut

\* one call of normalize_existing_df(df, ticker_hint); dropped is the
\* header_like_rows list of lines 177-199, by row position
Normalize ==
    /\ nin # NoOut
    /\ nout = NoOut
    /\ nout' = [dropped |-> IF nin.df = None THEN {}
                            ELSE header_like_rows(
                                     [i \in 1..Len(nin.df.cols) |->
                                         flatten_column_name(nin.df.cols[i])],
                                     nin.df.rows, nin.hint),
                res |-> normalize_existing_df(nin.df, nin.hint)]
    /\ UNCHANGED <<nin, uvars, pvars, avars, rvars, yvars, lvars, cvars>>

\* the updater at rest: before any batch, no ticker listed
UIdle ==
    /\ tickers = <<>> /\ max_runs = 0 /\ run = 0 /\ today = 0
    /\ create_missing = FALSE /\ idx = 0 /\ pc = "idle"
    /\ file = [t \in TickerIds |-> MissingFile] /\ file0 = file
    /\ existing_clean = None /\ start = 0 /\ req = NoReq
    /\ raw = None /\ new_df = None /\ merged_count = 0 /\ outcome = "none"

InitNorm == UIdle /\ NInit /\ PIdle /\ AIdle /\ RIdle /\ YIdle /\ LIdle /\ CIdle
NextNorm == Normalize
SpecNorm == InitNorm /\ [][NextNorm]_vars

(* ----------------------------- the reconciler -------------------------- *)
\* Prices are in paise (0.01 rupee), max_pct and min_frac in percent,
\* offsets in 1/10000.
MIN_PRICE == 1
VOLATILITY_FOR_OHLC == 200
RNG_SEED == 42
Raised == [raised |-> TRUE]

Max3(a, b, c) == Max2(a, Max2(b, c))
Min3(a, b, c) == Min2(a, Min2(b, c))
\* Series.clip(lower=lo, upper=hi)
Clip(x, lo, hi) == Min2(Max2(x, lo), hi)

\* a band without the widening of lines 512-513
BoundsUnwidened(last_close, max_pct, abs_limit, min_frac) ==
    LET min_allowed == Max2(MIN_PRICE, (last_close * min_frac) \div 100)
    IN [min_allowed |-> min_allowed,
        lower_bound |-> Max3(min_allowed,
                             (last_close * (100 - max_pct)) \div 100,
                             last_close - abs_limit),
        upper_bound |-> Min2((last_close * (100 + max_pct)) \div 100,
                             last_close + abs_limit)]

\* lines 498-513: the floor and the band around the last close
Bounds(last_close, max_pct, abs_limit, min_frac) ==
    LET min_allowed == Max2(MIN_PRICE, (last_close * min_frac) \div 100)
        lower_by_pct == (last_close * (100 - max_pct)) \div 100
        upper_by_pct == (last_close * (100 + max_pct)) \div 100
        lower_by_abs == last_close - abs_limit
        upper_by_abs == last_close + abs_limit
        lower_bound == Max3(min_allowed, lower_by_pct, lower_by_abs)
        upper_bound == Min2(upper_by_pct, upper_by_abs)
    IN [min_allowed |-> min_allowed,
        lower_bound |-> lower_bound,
        upper_bound |-> IF upper_bound <= lower_bound
                        THEN lower_bound + Max2(MIN_PRICE, last_close \div 100)
                        ELSE upper_bound]

RECURSIVE SumSeq(_)
SumSeq(xs) == IF xs = <<>> THEN 0 ELSE Head(xs) + SumSeq(Tail(xs))
\* rolling(window=w, min_periods=1).mean()
RollingMean(xs, w) ==
    [i \in 1..Len(xs) |->
        LET from == Max2(1, i - w + 1)
        IN SumSeq(SubSeq(xs, from, i)) \div (i - from + 1)]

\* lines 519-524: clip, smooth, clip again, floor
SmoothedClose(pred, b, smooth_window) ==
    LET clipped == [i \in 1..Len(pred) |->
                       Clip(pred[i], b.lower_bound, b.upper_bound)]
        smooth == IF smooth_window > 1
                  THEN RollingMean(clipped, Min2(smooth_window, Len(pred)))
                  ELSE clipped
    IN [i \in 1..Len(pred) |->
           Max2(Clip(smooth[i], b.lower_bound, b.upper_bound), b.min_allowed)]

\* a generator is its state; a draw moves it on and yields the new state
LcgNext(x) == (5 * x + 3) % RngModulus
RECURSIVE RngDraw(_, _)
RngDraw(g, k) == IF k = 0 THEN g ELSE LcgNext(RngDraw(g, k - 1))
\* a generator that starts from the state of the process-wide one
default_rng_ambient(seed) == ambient

\* line 526: np.random.default_rng(seed=rng_seed), a generator of its own
default_rng(seed) == seed % RngModulus
\* rng.uniform(lo, hi) from the raw draw u
Uniform(lo, hi, u) == lo + ((hi - lo) * u) \div RngModulus
\* lines 527-530: three vectors of n draws, one after the other
DrawOffsets(g, n) ==
    [high |-> [i \in 1..n |->
                  Uniform(VOLATILITY_FOR_OHLC \div 2, VOLATILITY_FOR_OHLC,
                          RngDraw(g, i))],
     low |-> [i \in 1..n |->
                 Uniform(VOLATILITY_FOR_OHLC \div 2, VOLATILITY_FOR_OHLC,
                         RngDraw(g, n + i))],
     open |-> [i \in 1..n |->
                  Uniform(0 - VOLATILITY_FOR_OHLC \div 2, VOLATILITY_FOR_OHLC \div 2,
                          RngDraw(g, 2 * n + i))]]

\* High and Low that stay at the forecast's own values where those lie
\* inside the band
HighLowKeepingRaw(cl, off, b) ==
    [High |-> [i \in 1..Len(cl) |-> Clip(pin.ohl.High, cl[i], b.upper_bound)],
     Low |-> [i \in 1..Len(cl) |-> Clip(pin.ohl.Low, b.lower_bound, cl[i])]]

\* lines 532-533: High and Low around Close
HighLow(cl, off, b) ==
    [High |-> [i \in 1..Len(cl) |->
                  Min2((cl[i] * (10000 + off.high[i])) \div 10000, b.upper_bound)],
     Low |-> [i \in 1..Len(cl) |->
                 Max2((cl[i] * (10000 - off.low[i])) \div 10000, b.lower_bound)]]

\* the keyword arguments the call sites of api_prediction_analyze pass
\* (lines 583-674), and the defaults of line 481-482
CallSiteParams ==
    { [max_pct |-> 35, abs_limit |-> 10000, min_frac |-> 1, smooth_window |-> 1],
      [max_pct |-> 35, abs_limit |-> 10000, min_frac |-> 1, smooth_window |-> 3],
      [max_pct |-> 10, abs_limit |-> 2000, min_frac |-> 50, smooth_window |-> 3],
      [max_pct |-> 35, abs_limit |-> 5000, min_frac |-> 1, smooth_window |-> 1],
      [max_pct |-> 20, abs_limit |-> 5000, min_frac |-> 1, smooth_window |-> 3] }

\* the forecasts: up to MaxPred raw Close values below, inside and above
\* the band of the last closes
RawCloses == {3000, 10000, 20000}
LastCloses == {0, 10000, 50000}
\* the Open, High and Low a raw forecast carries in each of its rows
RawOhl == {[Open |-> 9000, High |-> 9500, Low |-> 8500],
           [Open |-> 30000, High |-> 31000, Low |-> 29000]}
\* a forecast frame: its Close column and the Open/High/Low of its rows
Frame(pred, ohl) == [Close |-> pred, ohl |-> ohl]
PostInputs ==
    {[pred |-> pred, ohl |-> ohl, last_close |-> lc, params |-> ps,
      rng_seed |-> RNG_SEED] :
        pred \in UNION {[1..n -> RawCloses] : n \in 0..MaxPred},
        ohl \in RawOhl,
        lc \in LastCloses,
        ps \in CallSiteParams}

PInit ==
    /\ pin \in PostInputs
    /\ ppc = "start" /\ band = NoOut /\ close = NoOut /\ offsets = NoOut
    /\ highlow = NoOut /\ pout = NoOut /\ pfirst = NoOut
    /\ pcalls = 1 /\ ambient \in {0, 1}
    /\ pred_df = Frame(pin.pred, pin.ohl)

\* lines 495-496: an empty forecast is returned as it is
PostEmpty ==
    /\ ppc = "start"
    /\ pin.pred = <<>>
    /\ pout' = pin.pred
    /\ ppc' = "done"
    /\ UNCHANGED <<pin, band, close, offsets, highlow, pfirst, pcalls, ambient, pred_df>>
    /\ UNCHANGED <<uvars, nvars, avars, rvars, yvars, lvars, cvars>>

\* lines 498-513
PostBounds ==
    /\ ppc = "start"
    /\ pin.pred # <<>>
    /\ band' = Bounds(pin.last_close, pin.params.max_pct, pin.params.abs_limit,
                      pin.params.min_frac)
    /\ ppc' = "close"
    /\ UNCHANGED <<pin, close, offsets, highlow, pout, pfirst, pcalls, ambient, pred_df>>
    /\ UNCHANGED <<uvars, nvars, avars, rvars, yvars, lvars, cvars>>

\* lines 515-524
PostClose ==
    /\ ppc = "close"
    /\ close' = SmoothedClose(pin.pred, band, pin.params.smooth_window)
    /\ ppc' = "ohlc"
    /\ UNCHANGED <<pin, band, offsets, highlow, pout, pfirst, pcalls, ambient, pred_df>>
    /\ UNCHANGED <<uvars, nvars, avars, rvars, yvars, lvars, cvars>>

\* lines 526-535: the offsets are drawn, High and Low are set; then line 535
\* calls clip(lower=..., upper=...) on prev_close * (1 + open_offsets), which
\* is a numpy array: ndarray.clip takes min and max, not lower and upper,
\* and raises.  Lines 537-542 are never reached.
PostOhlc ==
    /\ ppc = "ohlc"
    /\ offsets' = DrawOffsets(default_rng(pin.rng_seed), Len(close))
    /\ highlow' = HighLow(close, offsets', band)
    /\ pout' = Raised
    /\ ppc' = "done"
    /\ UNCHANGED <<pin, band, close, pfirst, pcalls, ambient, pred_df>>
    /\ UNCHANGED <<uvars, nvars, avars, rvars, yvars, lvars, cvars>>

\* the same arguments are passed again
PostAgain ==
    /\ ppc = "done"
    /\ pcalls < MaxCalls
    /\ pfirst' = IF pfirst = NoOut
                 THEN [band |-> band, close |-> close, offsets |-> offsets,
                       highlow |-> highlow, out |-> pout, ohl |-> pin.ohl]
                 ELSE pfirst
    /\ pcalls' = pcalls + 1
    /\ ppc' = "start"
    /\ band' = NoOut /\ close' = NoOut /\ offsets' = NoOut /\ highlow' = NoOut
    /\ pout' = NoOut
    /\ UNCHANGED <<pin, ambient, pred_df>>
    /\ UNCHANGED <<uvars, nvars, avars, rvars, yvars, lvars, cvars>>

\* a forecast with the same Close column and other Open, High and Low is
\* passed, with the same history, parameters and seed
PostAgainOtherOhl ==
    /\ ppc = "done"
    /\ pcalls < MaxCalls
    /\ pred_df = Frame(pin.pred, pin.ohl)
    /\ \E ohl \in RawOhl \ {pin.ohl} :
           /\ pin' = [pin EXCEPT !.ohl = ohl]
           /\ pred_df' = Frame(pin.pred, ohl)
    /\ pfirst' = IF pfirst = NoOut
                 THEN [band |-> band, close |-> close, offsets |-> offsets,
                       highlow |-> highlow, out |-> pout, ohl |-> pin.ohl]
                 ELSE pfirst
    /\ pcalls' = pcalls + 1
    /\ ppc' = "start"
    /\ band' = NoOut /\ close' = NoOut /\ offsets' = NoOut /\ highlow' = NoOut
    /\ pout' = NoOut
    /\ UNCHANGED ambient
    /\ UNCHANGED <<uvars, nvars, avars, rvars, yvars, lvars, cvars>>

\* other code of the process draws from the process-wide generator
\* (np.random.uniform, src/prediction.py lines 269-271)
AmbientDraw ==
    /\ ppc \in {"start", "close", "ohlc", "done"}
    /\ ambient' = LcgNext(ambient)
    /\ UNCHANGED <<pin, ppc, band, close, offsets, highlow, pout, pfirst, pcalls, pred_df>>
    /\ UNCHANGED <<uvars, nvars, avars, rvars, yvars, lvars, cvars>>

InitPost == UIdle /\ NIdle /\ PInit /\ AIdle /\ RIdle /\ YIdle /\ LIdle /\ CIdle
NextPost ==
    PostEmpty \/ PostBounds \/ PostClose \/ PostOhlc \/ PostAgain
        \/ PostAgainOtherOhl \/ AmbientDraw
SpecPost == InitPost /\ [][NextPost]_vars

(* ------------------------- the forecast endpoint ----------------------- *)
\* lightgbm_predict, line 206: fewer valid rows raise ValueError
MIN_LGBM_ROWS == 5
TimeRanges == {"days", "hours", "minutes"}
\* lines 569, 618, 648: periods
Periods(time_range) ==
    CASE time_range = "days" -> 7
      [] time_range = "hours" -> 24
      [] time_range = "minutes" -> 60

\* the keyword arguments of the postprocess calls for the LightGBM series
\* (lines 583-587, 640-644, 670-674)
LgbmParams(time_range) ==
    IF time_range = "days"
    THEN [max_pct |-> 35, abs_limit |-> 10000, min_frac |-> 1, smooth_window |-> 1]
    ELSE [max_pct |-> 35, abs_limit |-> 5000, min_frac |-> 1, smooth_window |-> 1]
\* and for the Prophet series (lines 596-600, 609-613, 628-632, 658-662)
ProphetParams(time_range) ==
    IF time_range = "days"
    THEN [max_pct |-> 35, abs_limit |-> 10000, min_frac |-> 1, smooth_window |-> 3]
    ELSE [max_pct |-> 10, abs_limit |-> 2000, min_frac |-> 50, smooth_window |-> 3]

\* a forecast series: where it comes from, its rows, and the postprocess
\* call made on it (NoOut: none)
Series(origin, rows) == [origin |-> origin, rows |-> rows, post |-> NoOut]

\* how postprocess_prediction_df ends on a forecast of rows rows: an empty
\* one is returned as it is (lines 495-496), any other raises (line 535)
PostprocessEnds(rows) == IF rows = 0 THEN "returned" ELSE "raised"

\* try: x = postprocess_prediction_df(x, ..., **params) except Exception: pass
\* the series stays as it was when the call raises
TryPostprocess(series, params) ==
    [series EXCEPT !.post = [params |-> params,
                             ended |-> PostprocessEnds(series.rows)]]

\* load_preprocessed_lgbm / load_preprocessed_prophet (lines 38-65)
LoadPreprocessed(file_state, time_range) ==
    CASE file_state = "none" -> NoOut
      [] file_state = "empty" -> Series("file", 0)
      [] file_state = "rows" -> Series("file", Periods(time_range))

ApiRequests ==
    [time_range : TimeRanges \cup {"weeks"},
     lgbm_file : {"none", "rows"},
     prophet_file : {"none", "empty", "rows"},
     yf_rows : {0, MIN_LGBM_ROWS - 1, MIN_LGBM_ROWS},
     lgb_lib : BOOLEAN,
     prophet_lib : BOOLEAN,
     disk_ok : BOOLEAN]

AInit ==
    /\ areq \in ApiRequests
    /\ apc = "start" /\ step = <<>> /\ hist_df = NoOut
    /\ lgbm_df = NoOut /\ prophet_df = NoOut /\ artifact = NoOut
    /\ response = NoOut /\ failed_in = "none"

\* lines 687-697: the handler of the outer try
ApiFail ==
    /\ response' = [status |-> 500, error |-> "exception", step |-> step]
    /\ failed_in' = apc
    /\ apc' = "done"

\* lines 556-574, 617-620, 647-650, 676-677: the request is taken apart
ApiStart ==
    /\ apc = "start"
    /\ IF areq.time_range \notin TimeRanges
       THEN /\ response' = [status |-> 400, error |-> "invalid_time_range",
                            step |-> step]
            /\ apc' = "done"
            /\ UNCHANGED <<step, lgbm_df, prophet_df>>
       ELSE IF areq.time_range = "days"
       THEN LET lg == LoadPreprocessed(areq.lgbm_file, "days")
                pr == LoadPreprocessed(areq.prophet_file, "days")
            IN /\ lgbm_df' = lg
               /\ prophet_df' = pr
               /\ IF lg = NoOut \/ pr = NoOut
                  THEN step' = <<"fetch_yfinance", "days">> /\ apc' = "load"
                  ELSE step' = <<"preprocessed", "days">> /\ apc' = "pre"
               /\ UNCHANGED response
       ELSE /\ step' = <<"fetch_yfinance", areq.time_range>>
            /\ apc' = "load"
            /\ UNCHANGED <<lgbm_df, prophet_df, response>>
    /\ UNCHANGED <<areq, hist_df, artifact, failed_in>>
    /\ UNCHANGED <<uvars, nvars, pvars, rvars, yvars, lvars, cvars>>

\* lines 576-577, 621-623, 651-653: load_historical_data_yf raises when
\* yfinance has no rows
ApiLoad ==
    /\ apc = "load"
    /\ IF areq.yf_rows = 0
       THEN ApiFail /\ UNCHANGED <<step, hist_df>>
       ELSE /\ hist_df' = [rows |-> areq.yf_rows]
            /\ IF areq.time_range = "days" /\ lgbm_df = NoOut
               THEN step' = <<"lightgbm_predict", "days">> /\ apc' = "lgbm"
               ELSE step' = <<"prophet_predict", areq.time_range>> /\ apc' = "prophet"
            /\ UNCHANGED <<response, failed_in>>
    /\ UNCHANGED <<areq, lgbm_df, prophet_df, artifact>>
    /\ UNCHANGED <<uvars, nvars, pvars, rvars, yvars, lvars, cvars>>

\* lines 578-590, 637-646, 667-676: lightgbm_predict raises without the
\* library (line 193) or with too few rows (line 207); its forecast is
\* handed to postprocess_prediction_df inside a try
ApiLgbm ==
    /\ apc = "lgbm"
    /\ IF ~areq.lgb_lib \/ hist_df.rows < MIN_LGBM_ROWS
       THEN ApiFail /\ UNCHANGED <<step, lgbm_df>>
       ELSE /\ lgbm_df' = TryPostprocess(
                              Series("adapter", Periods(areq.time_range)),
                              LgbmParams(areq.time_range))
            /\ IF areq.time_range = "days" /\ prophet_df = NoOut
               THEN step' = <<"prophet_predict", "days">> /\ apc' = "prophet"
               ELSE step' = step /\ apc' = "save"
            /\ UNCHANGED <<response, failed_in>>
    /\ UNCHANGED <<areq, hist_df, prophet_df, artifact>>
    /\ UNCHANGED <<uvars, nvars, pvars, rvars, yvars, lvars, cvars>>

\* lines 591-603, 624-635, 654-665: prophet_predict raises without the
\* library (line 90)
ApiProphet ==
    /\ apc = "prophet"
    /\ IF ~areq.prophet_lib
       THEN ApiFail /\ UNCHANGED <<step, prophet_df>>
       ELSE /\ prophet_df' = TryPostprocess(
                                 Series("adapter", Periods(areq.time_range)),
                                 ProphetParams(areq.time_range))
            /\ IF areq.time_range = "days"
               THEN step' = step /\ apc' = "save"
               ELSE step' = <<"lightgbm_predict", areq.time_range>> /\ apc' = "lgbm"
            /\ UNCHANGED <<response, failed_in>>
    /\ UNCHANGED <<areq, hist_df, lgbm_df, artifact>>
    /\ UNCHANGED <<uvars, nvars, pvars, rvars, yvars, lvars, cvars>>

\* lines 605-616: both preprocessed files are there; only prophet_df is
\* handed to postprocess_prediction_df
ApiPre ==
    /\ apc = "pre"
    /\ prophet_df' = TryPostprocess(prophet_df, ProphetParams("days"))
    /\ apc' = "save"
    /\ UNCHANGED <<areq, step, hist_df, lgbm_df, artifact, response, failed_in>>
    /\ UNCHANGED <<uvars, nvars, pvars, rvars, yvars, lvars, cvars>>

\* line 679: save_prediction_csv_v2
ApiSave ==
    /\ apc = "save"
    /\ IF ~areq.disk_ok
       THEN ApiFail /\ UNCHANGED artifact
       ELSE /\ artifact' = [prophet |-> prophet_df, lgbm |-> lgbm_df]
            /\ apc' = "respond"
            /\ UNCHANGED <<response, failed_in>>
    /\ UNCHANGED <<areq, step, hist_df, lgbm_df, prophet_df>>
    /\ UNCHANGED <<uvars, nvars, pvars, rvars, yvars, lvars, cvars>>

\* lines 680-685
ApiRespond ==
    /\ apc = "respond"
    /\ response' = [status |-> 200, prophet |-> prophet_df, lgbm |-> lgbm_df,
                    step |-> step]
    /\ apc' = "done"
    /\ UNCHANGED <<areq, step, hist_df, lgbm_df, prophet_df, artifact, failed_in>>
    /\ UNCHANGED <<uvars, nvars, pvars, rvars, yvars, lvars, cvars>>

InitApi == UIdle /\ NIdle /\ PIdle /\ AInit /\ RIdle /\ YIdle /\ LIdle /\ CIdle
NextApi ==
    ApiStart \/ ApiLoad \/ ApiLgbm \/ ApiProphet \/ ApiPre \/ ApiSave \/ ApiRespond
SpecApi == InitApi /\ [][NextApi]_vars

(* ------------------- the download's conversion alone ------------------- *)
\* the column layouts of the frames yfinance hands over
YfLayouts ==
    { YfColumns,
      <<"Date", "Close_AAA.NS">>,
      <<"Date", "Close_AAA_NS">>,
      <<"Date", "Adj Close", "Close">>,
      <<"Date", "Adj Close", "Close_AAA.NS">>,
      <<"Date", "Close_AAA_NS", "Close_AAA.NS">>,
      <<"Date", "Adj Close", "Close_AAA_NS">>,
      <<"Date", "Adj Close">>,
      <<"Date", LongCloseColumn>>,
      <<"Date", "Volume">> }

\* a row dated d whose cell in column c holds 100 + c
YfLayoutRow(cols, d) ==
    [c \in 1..Len(cols) |-> IF c = 1 THEN TsCell(d) ELSE Num(100 + c)]
YfFramesOver(cols) ==
    {[cols |-> cols, rows |-> [r \in 1..n |-> YfLayoutRow(cols, ds[r])]] :
        n \in 1..MaxFetch, ds \in [1..MaxFetch -> Days]}
YfFrames == UNION {YfFramesOver(cols) : cols \in YfLayouts} \cup
            {None, [cols |-> YfColumns, rows |-> <<>>]}

YInit ==
    /\ yin \in {[df |-> f, tid |-> t] : f \in YfFrames, t \in TickerIds}
    /\ yout = NoOut

\* one call of extract_expected_from_yf(df, ticker)
Extract ==
    /\ yin # NoOut
    /\ yout = NoOut
    /\ yout' = extract_expected_from_yf(yin.df, yin.tid)
    /\ UNCHANGED yin
    /\ UNCHANGED <<uvars, nvars, pvars, avars, rvars, lvars, cvars>>

InitYf == UIdle /\ NIdle /\ PIdle /\ AIdle /\ RIdle /\ YInit /\ LIdle /\ CIdle
NextYf == Extract
SpecYf == InitYf /\ [][NextYf]_vars

(* --------------------------- lightgbm_predict -------------------------- *)
MaxHist == 6
MaxPeriods == 2
\* a NaN cell of the history
NaN == 0 - 1
\* line 218: the step of the index, in minutes
delta_map(freq) ==
    CASE freq = "D" -> 1440
      [] freq = "h" -> 60
      [] freq = "min" -> 1

\* Series.ffill() and Series.bfill() on a column of closes
ffill(xs) ==
    [i \in 1..Len(xs) |->
        IF \E j \in 1..i : xs[j] # NaN
        THEN xs[SetMax({j \in 1..i : xs[j] # NaN})] ELSE NaN]
bfill(xs) ==
    [i \in 1..Len(xs) |->
        IF \E j \in i..Len(xs) : xs[j] # NaN
        THEN xs[SetMin({j \in i..Len(xs) : xs[j] # NaN})] ELSE NaN]
\* lines 194-205: the rows left by valid_mask; the features are means and
\* lags of Close, filled forward and backward with it
valid_rows(closes) ==
    Cardinality({i \in 1..Len(closes) : bfill(ffill(closes))[i] # NaN})

\* an index that starts on the last timestamp of the history
future_idx_on_anchor(anchor, periods, delta) ==
    [k \in 1..periods |-> anchor + (k - 1) * delta]

\* line 235: pd.date_range(start=df.index[-1] + delta, periods=periods, freq=freq)
future_idx(anchor, periods, delta) ==
    [k \in 1..periods |-> (anchor + delta) + (k - 1) * delta]

\* the histories: up to MaxHist rows one unit apart, each Close a price or NaN
LgbInputs ==
    {[closes |-> cs, anchor |-> a, periods |-> p, freq |-> f, lgb_lib |-> l] :
        cs \in UNION {[1..n -> {NaN, 100}] : n \in 0..MaxHist},
        a \in {0, 90}, p \in 1..MaxPeriods, f \in {"D", "h", "min"},
        l \in BOOLEAN}

LInit ==
    /\ lgb_in \in LgbInputs
    /\ lgb_pc = "start" /\ valid_len = 0 /\ model_fitted = FALSE
    /\ predictions = <<>> /\ lgb_out = NoOut

\* lines 192-207: without the library the call raises at once; an empty
\* frame makes the rolling window 0 wide, which pandas refuses with a
\* ValueError; fewer than 5 valid rows raise the ValueError of line 207
LgbCheck ==
    /\ lgb_pc = "start"
    /\ IF ~lgb_in.lgb_lib
       THEN /\ lgb_out' = [raised |-> "RuntimeError"]
            /\ lgb_pc' = "done"
            /\ UNCHANGED valid_len
       ELSE IF Len(lgb_in.closes) = 0
       THEN /\ lgb_out' = [raised |-> "ValueError"]
            /\ lgb_pc' = "done"
            /\ UNCHANGED valid_len
       ELSE /\ valid_len' = valid_rows(lgb_in.closes)
            /\ IF valid_len' < MIN_LGBM_ROWS
               THEN lgb_out' = [raised |-> "ValueError"] /\ lgb_pc' = "done"
               ELSE lgb_out' = lgb_out /\ lgb_pc' = "fit"
    /\ UNCHANGED <<lgb_in, model_fitted, predictions>>
    /\ UNCHANGED <<uvars, nvars, pvars, avars, rvars, yvars, cvars>>

\* lines 208-216
LgbFit ==
    /\ lgb_pc = "fit"
    /\ model_fitted' = TRUE
    /\ lgb_pc' = "roll"
    /\ UNCHANGED <<lgb_in, valid_len, predictions, lgb_out>>
    /\ UNCHANGED <<uvars, nvars, pvars, avars, rvars, yvars, cvars>>

\* lines 220-234: one turn of the roll-forward loop
LgbRoll ==
    /\ lgb_pc = "roll"
    /\ IF Len(predictions) < lgb_in.periods
       THEN /\ predictions' = Append(predictions, 100)
            /\ lgb_pc' = "roll"
       ELSE /\ predictions' = predictions
            /\ lgb_pc' = "return"
    /\ UNCHANGED <<lgb_in, valid_len, model_fitted, lgb_out>>
    /\ UNCHANGED <<uvars, nvars, pvars, avars, rvars, yvars, cvars>>

\* lines 235-238
LgbReturn ==
    /\ lgb_pc = "return"
    /\ lgb_out' = [index |-> future_idx(lgb_in.anchor, lgb_in.periods,
                                        delta_map(lgb_in.freq)),
                   rows |-> predictions]
    /\ lgb_pc' = "done"
    /\ UNCHANGED <<lgb_in, valid_len, model_fitted, predictions>>
    /\ UNCHANGED <<uvars, nvars, pvars, avars, rvars, yvars, cvars>>

InitLgb == UIdle /\ NIdle /\ PIdle /\ AIdle /\ RIdle /\ YIdle /\ LInit /\ CIdle
NextLgb == LgbCheck \/ LgbFit \/ LgbRoll \/ LgbReturn
SpecLgb == InitLgb /\ [][NextLgb]_vars

(* ------------------- the advance/decline cache ------------------------- *)
MaxCycles == 3

\* header_api.py line 31 and main.py lines 33-37: the cache holds its
\* initial values (cycle 0), the updater thread is started, handlers wait
CInit ==
    /\ ADVDEC_CACHE = [adv |-> 0, dec |-> 0, ts |-> 0] /\ cycle = 0
    /\ upd_pc = "compute" /\ get_pc = "idle"
    /\ snapshot = NoOut /\ returned = NoOut

\* line 536: a cycle computes its counts; an exception ends the cycle with
\* nothing written (lines 540-541)
UpdCompute ==
    /\ upd_pc = "compute"
    /\ cycle < MaxCycles
    /\ cycle' = cycle + 1
    /\ upd_pc' \in {"adv", "sleep"}
    /\ UNCHANGED <<ADVDEC_CACHE, get_pc, snapshot, returned>>
    /\ UNCHANGED <<uvars, nvars, pvars, avars, rvars, yvars, lvars>>

\* line 537
UpdWriteAdv ==
    /\ upd_pc = "adv"
    /\ ADVDEC_CACHE' = [ADVDEC_CACHE EXCEPT !.adv = cycle]
    /\ upd_pc' = "dec"
    /\ UNCHANGED <<cycle, get_pc, snapshot, returned>>
    /\ UNCHANGED <<uvars, nvars, pvars, avars, rvars, yvars, lvars>>

\* line 538
UpdWriteDec ==
    /\ upd_pc = "dec"
    /\ ADVDEC_CACHE' = [ADVDEC_CACHE EXCEPT !.dec = cycle]
    /\ upd_pc' = "ts"
    /\ UNCHANGED <<cycle, get_pc, snapshot, returned>>
    /\ UNCHANGED <<uvars, nvars, pvars, avars, rvars, yvars, lvars>>

\* line 539
UpdWriteTs ==
    /\ upd_pc = "ts"
    /\ ADVDEC_CACHE' = [ADVDEC_CACHE EXCEPT !.ts = cycle]
    /\ upd_pc' = "sleep"
    /\ UNCHANGED <<cycle, get_pc, snapshot, returned>>
    /\ UNCHANGED <<uvars, nvars, pvars, avars, rvars, yvars, lvars>>

\* line 542
UpdSleep ==
    /\ upd_pc = "sleep"
    /\ upd_pc' = "compute"
    /\ UNCHANGED <<ADVDEC_CACHE, cycle, get_pc, snapshot, returned>>
    /\ UNCHANGED <<uvars, nvars, pvars, avars, rvars, yvars, lvars>>

\* line 394: a request handler calls get_cached_advdec
GetCall ==
    /\ get_pc = "idle"
    /\ get_pc' = "adv"
    /\ snapshot' = [adv |-> 0, dec |-> 0, ts |-> 0]
    /\ UNCHANGED <<ADVDEC_CACHE, cycle, upd_pc, returned>>
    /\ UNCHANGED <<uvars, nvars, pvars, avars, rvars, yvars, lvars>>

\* line 549
GetAdv ==
    /\ get_pc = "adv"
    /\ snapshot' = [snapshot EXCEPT !.adv = ADVDEC_CACHE.adv]
    /\ get_pc' = "dec"
    /\ UNCHANGED <<ADVDEC_CACHE, cycle, upd_pc, returned>>
    /\ UNCHANGED <<uvars, nvars, pvars, avars, rvars, yvars, lvars>>

\* line 550
GetDec ==
    /\ get_pc = "dec"
    /\ snapshot' = [snapshot EXCEPT !.dec = ADVDEC_CACHE.dec]
    /\ get_pc' = "ts"
    /\ UNCHANGED <<ADVDEC_CACHE, cycle, upd_pc, returned>>
    /\ UNCHANGED <<uvars, nvars, pvars, avars, rvars, yvars, lvars>>

\* line 551: the last key is read and the dict returned
GetTs ==
    /\ get_pc = "ts"
    /\ returned' = [snapshot EXCEPT !.ts = ADVDEC_CACHE.ts]
    /\ snapshot' = NoOut
    /\ get_pc' = "idle"
    /\ UNCHANGED <<ADVDEC_CACHE, cycle, upd_pc>>
    /\ UNCHANGED <<uvars, nvars, pvars, avars, rvars, yvars, lvars>>

InitCache == UIdle /\ NIdle /\ PIdle /\ AIdle /\ RIdle /\ YIdle /\ LIdle /\ CInit
NextCache ==
    UpdCompute \/ UpdWriteAdv \/ UpdWriteDec \/ UpdWriteTs \/ UpdSleep
        \/ GetCall \/ GetAdv \/ GetDec \/ GetTs
SpecCache == InitCache /\ [][NextCache]_vars

(* ----------------------- the reader, step by step ---------------------- *)
\* lines 67-74: the (encoding, engine) pairs, in the order they are tried
candidates ==
    << <<"utf-8-sig", "c">>, <<"utf-8", "c">>, <<"latin-1", "c">>,
       <<"utf-8-sig", "python">>, <<"utf-8", "python">>, <<"latin-1", "python">> >>

\* the files of the calls
ReadBases ==
    { MissingFile,
      UnreadableFile,
      CsvFile(EXPECTED_COLUMNS, <<Bar(0, 100, Sym(1))>>),
      CsvFile(<<"Symbol", "Trade Date", "Close">>,
              <<(<<Sym(1), Iso(0), Num(100)>>)>>),
      CsvFile(<<"Day", "Close">>, <<(<<Txt, Num(100)>>)>>) }

\* a file, the candidates pd.read_csv parses it with (none for an
\* unreadable file, at least one for a CSV), whether the binary open of the
\* tail scan works, and whether the tail holds a date-like token
ReadInputs ==
    {[base |-> b, parses |-> ps, tail_opens |-> o, tail_date |-> t] :
        b \in ReadBases, ps \in SUBSET (1..Len(candidates)),
        o \in BOOLEAN, t \in BOOLEAN} \cap
    {x \in [base : ReadBases, parses : SUBSET (1..Len(candidates)),
            tail_opens : BOOLEAN, tail_date : BOOLEAN] :
        /\ x.base.kind = "csv" <=> x.parses # {}
        /\ x.base.kind = "missing" => ~x.tail_opens /\ ~x.tail_date
        /\ x.tail_date => x.tail_opens
        /\ x.base.kind = "csv" => x.tail_opens /\ x.tail_date}

RInit ==
    /\ rfile \in ReadInputs
    /\ rpc = "start" /\ rk = 0 /\ attempts = <<>> /\ rresult = NoOut

\* the triple read_csv_flexible returns
Triple(table, date_col, debug) ==
    [df |-> table, date_col |-> date_col, debug |-> debug]

\* a tail scan that hands back the rows around the date it found
tail_scan_salvages(opens, found_date, debug) ==
    IF opens /\ found_date
    THEN Triple([cols |-> <<"Date">>, rows |-> <<(<<Iso(0)>>)>>], 1,
                Append(debug, "tail_found_date"))
    ELSE Triple(None, 0, debug)

\* lines 98-122: the tail scan; an exception in it is caught and logged
\* (lines 119-120); every way out returns no table and no date column
tail_scan(opens, found_date, debug) ==
    IF ~opens THEN Triple(None, 0, Append(debug, "tail-scan-exception"))
    ELSE IF found_date THEN Triple(None, 0, Append(debug, "tail_found_date"))
    ELSE Triple(None, 0, debug)

\* lines 56-65: the path is looked up; the sample and the delimiter are
\* read inside try_read_lines and detect_delimiter, which catch everything
ReadStart ==
    /\ rpc = "start"
    /\ IF rfile.base.kind = "missing"
       THEN /\ attempts' = <<"file-not-found">>
            /\ rresult' = Triple(None, 0, attempts')
            /\ rpc' = "done"
            /\ UNCHANGED rk
       ELSE /\ rk' = 1
            /\ rpc' = "try"
            /\ UNCHANGED <<attempts, rresult>>
    /\ UNCHANGED rfile
    /\ UNCHANGED <<uvars, nvars, pvars, avars, yvars, lvars, cvars>>

\* lines 75-96: one turn of the loop; an exception of pd.read_csv or of the
\* lines after it is caught and logged, and the next candidate is tried
ReadTry ==
    /\ rpc = "try"
    /\ IF rk \in rfile.parses
       THEN /\ attempts' = Append(attempts, <<"read-success", candidates[rk]>>)
            /\ rresult' = Triple(read_csv_flexible(rfile.base).df,
                                 read_csv_flexible(rfile.base).date_col,
                                 attempts')
            /\ rpc' = "done"
            /\ UNCHANGED rk
       ELSE /\ attempts' = Append(attempts, <<"failed", candidates[rk]>>)
            /\ IF rk < Len(candidates)
               THEN rk' = rk + 1 /\ rpc' = "try"
               ELSE rk' = rk /\ rpc' = "tail"
            /\ UNCHANGED rresult
    /\ UNCHANGED rfile
    /\ UNCHANGED <<uvars, nvars, pvars, avars, yvars, lvars, cvars>>

\* lines 98-122
ReadTail ==
    /\ rpc = "tail"
    /\ attempts' = Append(attempts, "tail-scan-fallback")
    /\ rresult' = tail_scan(rfile.tail_opens, rfile.tail_date, attempts')
    /\ rpc' = "done"
    /\ UNCHANGED <<rfile, rk>>
    /\ UNCHANGED <<uvars, nvars, pvars, avars, yvars, lvars, cvars>>

InitRead == UIdle /\ NIdle /\ PIdle /\ AIdle /\ RInit /\ YIdle /\ LIdle /\ CIdle
NextRead == ReadStart \/ ReadTry \/ ReadTail
SpecRead == InitRead /\ [][NextRead]_vars

(* ------------------------ claims on the merger ------------------------- *)
\* the current cycle has written one of the three merge branches
MergeWritten == pc = "end" /\ outcome \in {"created", "merged0", "merged"}
\* the rows of the current ticker's file
Written == file[ticker].rows
\* the valid dates of the download, as Date strings
FetchedDates ==
    {Iso(ParseLenient(raw.rows[r][1])) :
        r \in {q \in 1..Len(raw.rows) : ParseLenient(raw.rows[q][1]) # NaT}}
\* the file of the current ticker before the cycle, normalized (None: no series)
NormalizedBefore ==
    LET f == IF file0[ticker].kind = "missing" /\ create_missing
             THEN to_csv(EmptyFrame) ELSE file0[ticker]
    IN normalize_existing_df(read_csv_flexible(f).df, ticker_hint(ticker))
IsAscending(rows) ==
    \A i \in 1..(Len(rows) - 1) : rows[i][1].v < rows[i + 1][1].v

\* C2: after a merge onto an existing series, every date of the existing
\* series carries exactly the existing bar in the written file: a fetched
\* bar for a date already present is never written
C2_ExistingWins ==
    (pc = "end" /\ outcome \in {"merged0", "merged"}) =>
        \A r \in 1..Len(existing_clean.rows) :
            {Written[q] : q \in {i \in 1..Len(Written) :
                                    Written[i][1] = existing_clean.rows[r][1]}}
                = {existing_clean.rows[r]}
C2_Witness ==
    /\ pc = "end" /\ outcome = "merged"
    /\ \E k \in 1..Len(new_df.rows) :
           /\ new_df.rows[k][1] \in DatesOf(existing_clean)
           /\ \A r \in 1..Len(existing_clean.rows) :
                  new_df.rows[k][5] # existing_clean.rows[r][5]

\* C3: every series a merge branch writes holds each Date at most once
C3_DatesUnique ==
    MergeWritten => Cardinality({Written[q][1] : q \in 1..Len(Written)}) = Len(Written)
C3_Witness ==
    /\ pc = "end" /\ outcome = "created"
    /\ \E i, j \in 1..Len(raw.rows) :
           i < j /\ raw.rows[i][1] = raw.rows[j][1] /\ raw.rows[i][1] # Empty

\* C4: every series a merge branch writes has strictly ascending dates
C4_DatesAscending == MergeWritten => IsAscending(Written)

\* C5: from the second batch on, a cycle that finds the file the previous
\* batch left and receives no new external data leaves the series on disk as
\* the previous batch left it, and merges 0 rows
C5_Idempotent ==
    (run >= 2 /\ pc = "end" /\ file0[ticker].kind # "missing"
      /\ outcome \in {"skip_window", "error", "no_data", "none_parsed", "merged0"}) =>
        /\ read_csv_flexible(file[ticker]).df = read_csv_flexible(file0[ticker]).df
        /\ merged_count = 0

\* C8: after a merge onto an existing series the dates on disk are the
\* existing dates united with the fetched dates, the merge count is the
\* number of fetched dates not in the existing series, and the existing
\* rows are unchanged
C8_MergeIsUnion ==
    (pc = "end" /\ outcome \in {"merged0", "merged"}) =>
        /\ {Written[q][1] : q \in 1..Len(Written)}
               = DatesOf(existing_clean) \cup FetchedDates
        /\ merged_count = Cardinality(FetchedDates \ DatesOf(existing_clean))
        /\ \A r \in 1..Len(existing_clean.rows) :
               \E q \in 1..Len(Written) : Written[q] = existing_clean.rows[r]
C8_Witness ==
    /\ pc = "end" /\ outcome = "merged"
    /\ FetchedDates \cap DatesOf(existing_clean) # {}
    /\ merged_count = 1
    /\ Len(Written) = Len(existing_clean.rows) + 1

\* C9: a cycle whose fetch window is empty makes no download call and leaves
\* on disk exactly the normalized form of the file it found
C9_EmptyWindow ==
    (pc = "end" /\ outcome = "skip_window") =>
        /\ req = NoReq
        /\ NormalizedBefore # None
        /\ file[ticker] = to_csv(NormalizedBefore)

\* C10: a download for a ticker whose file normalizes to a series starts the
\* day after the last Date of that series and ends at today + 1
C10_FetchWindow ==
    (pc \in {"merge", "end"} /\ req # NoReq /\ NormalizedBefore # None) =>
        /\ req.start = SetMax({NormalizedBefore.rows[r][1].v :
                                  r \in 1..Len(NormalizedBefore.rows)}) + 1
        /\ req.end = today + 1
C10_Witness ==
    /\ pc = "merge" /\ req # NoReq /\ NormalizedBefore # None
    /\ Len(NormalizedBefore.rows) >= 2

\* the current cycle has read its file (it was not skipped for lack of one)
CycleRead == pc \in {"fetch", "merge", "end"} /\ outcome # "no_file"

\* C11: a cycle whose file is unreadable, or readable without a series
\* surviving normalization, takes the default start date as fetch start
C11_DefaultStart ==
    (CycleRead /\ NormalizedBefore = None) => start = DEFAULT_START_DATE

\* the file the current cycle found (the header-only file it created, if
\* there was none)
FoundFile ==
    IF file0[ticker].kind = "missing" THEN to_csv(EmptyFrame) ELSE file0[ticker]
\* the current cycle asked for a download and got an exception, no rows, or
\* rows of which none has a date
FetchGaveNothing ==
    /\ pc = "end" /\ req # NoReq
    /\ \/ raw = None
       \/ \A r \in 1..Len(raw.rows) : ParseLenient(raw.rows[r][1]) = NaT

InTurn ==
    /\ idx' # idx => \/ idx' = idx + 1 /\ pc \in {"loop", "end"}
                     \/ idx' = 0 /\ pc' \in {"idle", "loop"}
    /\ (pc # "idle" /\ pc' = "idle") => idx = Len(tickers)

\* C27: the tickers are processed one at a time in list order: a ticker's
\* cycle is over, or the ticker skipped, before the next one starts, and
\* every ticker of the list is visited whatever happened to the ones before
\* it, until the batch ends after the last one.
C27_OneTickerAtATime == [][InTurn]_vars

\* the dates a file holds, read as get_last_date_from_csv reads them: from
\* the date column the reader found, else from the first column
DatesOnDisk(f) ==
    LET r == read_csv_flexible(f)
    IN IF r.df = None THEN {}
       ELSE IF r.date_col # 0 /\ ColumnDates(r.df, r.date_col) # {}
       THEN ColumnDates(r.df, r.date_col)
       ELSE IF Len(r.df.cols) >= 1 THEN ColumnDates(r.df, 1)
       ELSE {}

\* C28: a cycle that writes the file keeps every date that was parseable
\* in the file before the cycle; a file without a normalized form whose
\* last date is still detected is never replaced by the fetched rows alone.
C28_NoDateLost ==
    MergeWritten => DatesOnDisk(file0[ticker]) \subseteq DatesOnDisk(file[ticker])

(* ---------------------- claims on the normalizer ----------------------- *)
\* the flattened column names and the rows of the table under normalization
NCols == [i \in 1..Len(nin.df.cols) |-> flatten_column_name(nin.df.cols[i])]
NRows == nin.df.rows
\* row i holds a parseable date in a column named after a date or in its
\* first cell
HasParseableDate(i) ==
    \E c \in 1..Len(NCols) :
        /\ c = 1 \/ LowerContains("date", NCols[c])
        /\ NRows[i][c].k \in {"iso", "len", "ts"}

\* C6: the header-row guard never drops a row that contains a parseable
\* date in a date-candidate column or in the first column, however
\* header-like the row's other cells look.
C6_GuardKeepsDatedRows ==
    (nout # NoOut /\ nin.df # None) =>
        \A i \in 1..Len(NRows) : HasParseableDate(i) => i \notin nout.dropped
\* a dated row whose other cells win the header vote was kept, while a
\* row of the same table without a date was dropped
C6_Witness ==
    /\ nout # NoOut /\ nin.df # None
    /\ \E i \in 1..Len(NRows) :
          /\ HasParseableDate(i)
          /\ VoteSaysHeader(NCols, NRows[i], nin.hint)
          /\ i \notin nout.dropped
    /\ nout.dropped # {}

\* the normalizer ran on a table
NormalizedTable == nout # NoOut /\ nin.df # None /\ Len(NRows) > 0
\* the dates of the normalizer's output
OutputDates ==
    IF nout.res = None THEN {}
    ELSE {nout.res.rows[r][1] : r \in 1..Len(nout.res.rows)}

\* C18: when no value of the Date column parses as YYYY-MM-DD, the column
\* is parsed again from its original values with the lenient parser, so a
\* row whose date parses only leniently is kept in the output.
C18_LenientReparse ==
    (/\ NormalizedTable
     /\ HasCol(NCols, "Date")
     /\ \A i \in 1..Len(NRows) :
            NRows[i][ColIndex(NCols, "Date")].k # "iso") =>
        \A i \in 1..Len(NRows) :
            (/\ NRows[i][ColIndex(NCols, "Date")].k = "len"
             /\ i \notin nout.dropped) =>
                Iso(NRows[i][ColIndex(NCols, "Date")].v) \in OutputDates

\* the column the Date is said to be taken from
NamedDateColumn ==
    IF FirstContaining(NCols, "date") # 0
    THEN FirstContaining(NCols, "date") ELSE 1

\* C19: a row among the first six is dropped as a header only if it has no
\* parseable date and at least half of its non-empty, non-date cells are
\* header-like; with one such cell of three the row stays.
C19_AtLeastHalf ==
    NormalizedTable =>
        \A i \in nout.dropped :
            /\ i <= HEAD_ROWS
            /\ ~HasParseableDate(i)
            /\ 2 * Cardinality(MatchedCells(NCols, NRows[i], nin.hint))
                   >= Cardinality(CountedCells(NCols, NRows[i]))

\* C20: the Date column is the first column whose name contains "date",
\* whatever its position, and the first column only when no name does: a
\* kept row with a YYYY-MM-DD date in that column reaches the output.
C20_DateColumnByName ==
    NormalizedTable =>
        \A i \in 1..Len(NRows) :
            (/\ NRows[i][NamedDateColumn].k = "iso"
             /\ i \notin nout.dropped) =>
                Iso(NRows[i][NamedDateColumn].v) \in OutputDates

\* the column normalize_existing_df reads the dates from (lines 202-203)
UsedDateColumn == IF HasCol(NCols, "Date") THEN ColIndex(NCols, "Date") ELSE 1
\* the input rows that carry day d as a valid Date
Occurrences(d) ==
    {i \in 1..Len(NRows) :
        /\ i \notin nout.dropped
        /\ NRows[i][UsedDateColumn].k = "iso"
        /\ NRows[i][UsedDateColumn].v = d}
\* the Close cell of input row i as the output carries it
InputClose(i) ==
    IF HasCol(NCols, "Close")
    THEN ToNumeric(NRows[i][ColIndex(NCols, "Close")]) ELSE Empty

\* C21: a non-null result of normalize_existing_df has exactly the seven
\* canonical columns in order, its Dates are unique and strictly ascending,
\* and for a Date the input carried several times the row kept is the last
\* one in input order.
C21_CanonicalResult ==
    (NormalizedTable /\ nout.res # None) =>
        /\ nout.res.cols = EXPECTED_COLUMNS
        /\ \A r \in 1..Len(nout.res.rows) :
               /\ Len(nout.res.rows[r]) = Len(EXPECTED_COLUMNS)
               /\ nout.res.rows[r][1].k = "iso"
        /\ IsAscending(nout.res.rows)
        /\ \A r \in 1..Len(nout.res.rows) :
               LET occ == Occurrences(nout.res.rows[r][1].v)
               IN /\ occ # {}
                  /\ nout.res.rows[r][ColIndex(EXPECTED_COLUMNS, "Close")]
                         = InputClose(SetMax(occ))
\* a table that carried one date twice with different Close values was
\* normalized to the single row of the later occurrence
C21_Witness ==
    /\ NormalizedTable /\ nout.res # None
    /\ \E i, j \in 1..Len(NRows) :
          /\ i < j
          /\ {i, j} \subseteq Occurrences(NRows[i][UsedDateColumn].v)
          /\ InputClose(i) # InputClose(j)
          /\ Len(nout.res.rows) = 1
          /\ nout.res.rows[1][ColIndex(EXPECTED_COLUMNS, "Close")] = InputClose(j)

\* row i carries a date in the named Date column that the strict parser,
\* or the lenient one where the strict one finds nothing, accepts
RowParses(i) == NRows[i][NamedDateColumn].k \in {"iso", "len"}

\* C22: normalize_existing_df returns null exactly when the input is null
\* or has no rows, no Date column can be established, or every row fails
\* date parsing; in every other case the result has at least one row.
C22_NullExactlyWhenUnusable ==
    nout # NoOut =>
        /\ nout.res = None <=>
               \/ nin.df = None
               \/ Len(NRows) = 0
               \/ Len(NCols) = 0
               \/ \A i \in 1..Len(NRows) : ~RowParses(i)
        /\ nout.res # None => Len(nout.res.rows) >= 1

(* ---------------------- claims on the reconciler ----------------------- *)
\* a call on a non-empty forecast has ended
PostDone == ppc = "done" /\ pin.pred # <<>>
\* the band the claims speak of, from the arguments of the call
ClaimBand ==
    Bounds(pin.last_close, pin.params.max_pct, pin.params.abs_limit,
           pin.params.min_frac)

\* C1: for any non-empty forecast and any finite last close, the call
\* returns rows, and every row satisfies
\* floor <= Low <= min(Open, Close) <= max(Open, Close) <= High <= upper_bound.
C1_BoundingInvariant ==
    PostDone =>
        /\ pout # Raised
        /\ \A i \in DOMAIN pout :
              /\ ClaimBand.min_allowed <= pout[i].Low
              /\ pout[i].Low <= Min2(pout[i].Open, pout[i].Close)
              /\ Max2(pout[i].Open, pout[i].Close) <= pout[i].High
              /\ pout[i].High <= ClaimBand.upper_bound

InitialUpper ==
    Min2((pin.last_close * (100 + pin.params.max_pct)) \div 100,
         pin.last_close + pin.params.abs_limit)

\* C25: for every last close, zero included, and every parameter set, the
\* band satisfies upper_bound > lower_bound >= floor >= 0.01 before any
\* clipping; an initial upper bound at or below the lower bound is widened
\* to lower_bound + max(0.01, last_close * 0.01).
C25_BandNeverDegenerate ==
    band # NoOut =>
        /\ band.upper_bound > band.lower_bound
        /\ band.lower_bound >= band.min_allowed
        /\ band.min_allowed >= MIN_PRICE
        /\ InitialUpper <= band.lower_bound =>
               band.upper_bound =
                   band.lower_bound + Max2(MIN_PRICE, pin.last_close \div 100)
\* the band of a forecast after a last close of zero was widened
C25_Witness ==
    /\ band # NoOut
    /\ pin.last_close = 0
    /\ InitialUpper <= band.lower_bound
    /\ band.upper_bound = band.lower_bound + MIN_PRICE

BandOf(params) == <<params.max_pct, params.abs_limit, params.min_frac>>

\* C13: within one request the Prophet series and the LightGBM series are
\* handed to postprocess_prediction_df with the same max_pct, abs_limit and
\* min_frac
C13_SameBandForBothModels ==
    (/\ lgbm_df # NoOut /\ prophet_df # NoOut
     /\ lgbm_df.post # NoOut /\ prophet_df.post # NoOut) =>
        BandOf(lgbm_df.post.params) = BandOf(prophet_df.post.params)

\* a series went through postprocess_prediction_df: the call was made on it
\* and returned
Reconciled(series) == series.post # NoOut /\ series.post.ended = "returned"

\* C14: every Prophet and LightGBM series the endpoint writes to the
\* prediction artifact or returns went through postprocess_prediction_df
C14_OnlyReconciledServed ==
    /\ artifact # NoOut =>
           Reconciled(artifact.prophet) /\ Reconciled(artifact.lgbm)
    /\ (response # NoOut /\ response.status = 200) =>
           Reconciled(response.prophet) /\ Reconciled(response.lgbm)

\* data was loaded and the artifact can be written, so that only a model
\* adapter can fail, and one does
OnlyAdapterFails ==
    /\ apc = "done"
    /\ areq.time_range \in TimeRanges
    /\ hist_df # NoOut
    /\ areq.disk_ok
    /\ failed_in \in {"lgbm", "prophet"}

\* C15: a request in which a model adapter fails still succeeds and
\* returns a series for both models
C15_AdapterFailureIsolated ==
    OnlyAdapterFails =>
        /\ response.status = 200
        /\ response.prophet # NoOut
        /\ response.lgbm # NoOut

\* the stage a step name stands for
StageOfStep(st) ==
    IF st = <<>> THEN "start"
    ELSE CASE st[1] = "fetch_yfinance" -> "load"
           [] st[1] = "lightgbm_predict" -> "lgbm"
           [] st[1] = "prophet_predict" -> "prophet"
           [] st[1] = "preprocessed" -> "pre"

\* C16: a request never ends without a response; a failure gives an error
\* response whose step names the stage in which the exception was raised;
\* an unknown time_range gives invalid_time_range, no model run, no file
C16_ErrorNamesStage ==
    apc = "done" =>
        /\ response # NoOut
        /\ failed_in # "none" =>
               /\ response.status = 500
               /\ StageOfStep(response.step) = failed_in
        /\ areq.time_range \notin TimeRanges =>
               /\ response.status = 400
               /\ response.error = "invalid_time_range"
               /\ lgbm_df = NoOut /\ prophet_df = NoOut /\ artifact = NoOut

(* ------------------------ claims on the reader ------------------------- *)
\* the call went through the tail scan
TailScanned ==
    \E i \in 1..Len(attempts) : attempts[i] = "tail-scan-fallback"

\* C17: every call of read_csv_flexible ends with a triple (table or None,
\* date column or none, diagnostics), and a call that went through the tail
\* scan returns no table, whether or not the scan found a date
C17_ReaderNeverRaises ==
    /\ rk <= Len(candidates)
    /\ rpc = "done" =>
           /\ DOMAIN rresult = {"df", "date_col", "debug"}
           /\ rresult.debug # <<>>
           /\ TailScanned => rresult.df = None /\ rresult.date_col = 0
\* a call on a file no candidate parses ended after a tail scan that found
\* a date
C17_Witness ==
    /\ rpc = "done" /\ TailScanned /\ rfile.tail_date
    /\ Len(attempts) = Len(candidates) + 1

\* the order the combinations are said to be tried in: each encoding with
\* the strict engine, then with the lenient one
EncodingMajorOrder ==
    << <<"utf-8-sig", "c">>, <<"utf-8-sig", "python">>,
       <<"utf-8", "c">>, <<"utf-8", "python">>,
       <<"latin-1", "c">>, <<"latin-1", "python">> >>
\* the combinations that parse the file
ParsingCombinations == {candidates[j] : j \in rfile.parses}

\* C23: the combinations are tried encoding by encoding (UTF-8 with BOM,
\* UTF-8, Latin-1), each with the strict engine and then the lenient one,
\* and the result comes from the first combination in that order that
\* parses.
C23_EncodingMajor ==
    (rpc # "idle" /\ rfile.base.kind # "missing") =>
        /\ \A k \in 1..Min2(Len(attempts), Len(candidates)) :
               attempts[k][2] = EncodingMajorOrder[k]
        /\ (rpc = "done" /\ rfile.parses # {}) =>
               LET first == CHOOSE k \in 1..Len(EncodingMajorOrder) :
                       /\ EncodingMajorOrder[k] \in ParsingCombinations
                       /\ \A j \in 1..(k - 1) :
                              EncodingMajorOrder[j] \notin ParsingCombinations
               IN attempts[Len(attempts)] =
                      <<"read-success", EncodingMajorOrder[first]>>

(* ------------------ claims on the download's conversion ---------------- *)
\* the column found by the exact name, then by {target}_{ticker}, then by
\* {target}_{ticker with dots replaced} (0: none of the three)
SourceByName(cols, target, tid) ==
    IF HasCol(cols, target) THEN ColIndex(cols, target)
    ELSE IF HasCol(cols, TickerColumn(target, tid))
    THEN ColIndex(cols, TickerColumn(target, tid))
    ELSE ColIndex(cols, TickerColumnUnderscored(target, tid))
\* the first column among those in S whose name contains the target (0: none)
FirstContainingIn(cols, target, S) ==
    IF \E c \in S : LowerContains(Lower(target), cols[c])
    THEN SetMin({c \in S : LowerContains(Lower(target), cols[c])})
    ELSE 0
\* the source column of a target: by name, else by containment among the
\* columns in S
SourceOf(cols, target, tid, S) ==
    IF SourceByName(cols, target, tid) # 0
    THEN SourceByName(cols, target, tid)
    ELSE FirstContainingIn(cols, target, S)
\* the result has the seven canonical columns and each of Open..Volume
\* carries the values of its source column among S, or nulls without one
ConvertedFrom(S) ==
    /\ yout.cols = EXPECTED_COLUMNS
    /\ \A r \in 1..Len(yout.rows) :
           /\ Len(yout.rows[r]) = Len(EXPECTED_COLUMNS)
           /\ \A c \in 2..(Len(EXPECTED_COLUMNS) - 1) :
                  LET src == SourceOf(yin.df.cols, EXPECTED_COLUMNS[c], yin.tid, S)
                  IN yout.rows[r][c] = IF src = 0 THEN PdNA ELSE Num(100 + src)
\* a frame with rows went through the conversion
Converted == yout # NoOut /\ yin.df # None /\ Len(yin.df.rows) > 0

\* C24 as stated: each of Open, High, Low, Close, Volume is taken from the
\* column found by the exact name, then {target}_{ticker}, then
\* {target}_{ticker with dots replaced}, then containment of the target name
\* in any column name; a target without a column is all null, and the result
\* always has the seven canonical columns.
C24_Original ==
    /\ yout # NoOut => yout.cols = EXPECTED_COLUMNS
    /\ Converted =>
           /\ Len(yout.rows) >= 1
           /\ ConvertedFrom(1..Len(yin.df.cols))
\* C24, amended: as stated, with the containment search limited to column
\* names of at most 80 characters.
C24_SourceColumnOrder ==
    /\ yout # NoOut => yout.cols = EXPECTED_COLUMNS
    /\ Converted =>
           /\ Len(yout.rows) >= 1
           /\ ConvertedFrom({c \in 1..Len(yin.df.cols) : Len(yin.df.cols[c]) <= 80})
\* a frame with an adjusted close before the ticker-suffixed close was
\* converted: Close comes from the suffixed column, Open is null
C24_Witness ==
    /\ Converted
    /\ yin.df.cols = <<"Date", "Adj Close", "Close_AAA.NS">> /\ yin.tid = 1
    /\ yout.rows[1][ColIndex(EXPECTED_COLUMNS, "Close")] = Num(103)
    /\ yout.rows[1][ColIndex(EXPECTED_COLUMNS, "Open")] = PdNA

(* ----------------------- claims on lightgbm_predict -------------------- *)
\* the call ended by raising
LgbRaised == lgb_pc = "done" /\ DOMAIN lgb_out = {"raised"}
\* the call ended by returning a frame
LgbReturned == lgb_pc = "done" /\ DOMAIN lgb_out = {"index", "rows"}

C30_SnapshotFromOneCycle ==
    returned # NoOut =>
        returned.adv = returned.dec /\ returned.dec = returned.ts

====
